---- MODULE Spec2Model ----
(***************************************************************************)
(* PodValidator (src/PodValidator/main.go): a command that fetches a       *)
(* deployment and its pods once, polls the deployment's Available          *)
(* condition for at most six attempts and, when the last attempt fails,    *)
(* walks the fetched pods, classifies every container and either explains  *)
(* a known waiting reason or scans the container's log for error lines.    *)
(*                                                                         *)
(* Strings the program only compares for equality (condition types,        *)
(* waiting reasons, secret names) are TLA+ strings.  Strings the program   *)
(* searches (log lines, waiting messages) are sequences of one-character   *)
(* strings, so that strings.ToLower and strings.Contains are computed.     *)
(* A log line is the bytes before its line end; ReadLine returns it whole   *)
(* when it fits bufio's read buffer with its line end, and in pieces of    *)
(* the buffer's size when it does not.  Log lines hold no carriage return. *)
(***************************************************************************)
EXTENDS Integers, Sequences, FiniteSets, TLC

VARIABLES
    pc,          \* the statement main is at
    exitCode,    \* -1 while the process runs, then its exit status
    outcome,     \* "None", "Success" (line 71) or "Failure" (line 77)
    cluster,     \* the deployment's status conditions in the cluster, now
    deployment,  \* the descriptor main fetched at line 52
    pods,        \* the pod list main fetched at line 59
    count,       \* main's attempt counter
    queries,     \* calls of printDeploymentStatus so far
    sleeps,      \* completed time.Sleep calls so far
    diagCalls,   \* calls of printPodStatus so far
    podIdx,      \* printPodStatus: index of the pod being walked
    ctrIdx,      \* printPodStatus: index of the container being handled
    report,      \* what printPodStatus did for each container handled so far
    secretGets,  \* the secret lookups made so far, in order
    podLogs,     \* getPodlogs: "none", "nil" (open failed), "open", "closed"
    stream,      \* getPodlogs: the lines the opened log stream holds
    pos,         \* getPodlogs: lines ReadLine has returned to their end so far
    consumed,    \* getPodlogs: bytes of the next line ReadLine has returned
    broken,      \* getPodlogs: a read failed and every later read fails too
    readErrs,    \* getPodlogs: read errors after which the stream recovered
    lineCount,   \* getPodlogs: lineCount
    seenLines,   \* getPodlogs: seenLines
    evidence,    \* getPodlogs: the lines printed at line 125, in order
    opens,       \* log streams opened successfully so far
    closes       \* Close calls on log streams so far

vars == <<pc, exitCode, outcome, cluster, deployment, pods, count, queries,
          sleeps, diagCalls, podIdx, ctrIdx, report, secretGets, podLogs,
          stream, pos, consumed, broken, readErrs, lineCount, seenLines,
          evidence, opens, closes>>

mainVars == <<cluster, deployment, pods, count, queries, sleeps, diagCalls>>
diagVars == <<podIdx, ctrIdx, report, secretGets>>
scanVars == <<podLogs, stream, pos, consumed, broken, readErrs, lineCount,
              seenLines, evidence, opens, closes>>

----------------------------------------------------------------------------
(* Bounds of the model and constants of the program.                       *)

MaxContainers == 2   \* containers in a multi-container pod list
MaxLines == 2        \* lines of a log stream in a whole run
MaxLong == 15        \* lines of a log stream in a scan taken alone
MaxReadErrs == 1     \* transient read errors of one log stream
BufSize == 4096      \* line 109: the buffer of bufio.NewReader
MaxAttempts == 6     \* count := 6
EvidenceCap == 10    \* lineCount >= 10

----------------------------------------------------------------------------
(* Characters and strings.                                                 *)

UpperChars == <<"A","B","C","D","E","F","G","H","I","J","K","L","M",
                "N","O","P","Q","R","S","T","U","V","W","X","Y","Z">>
LowerChars == <<"a","b","c","d","e","f","g","h","i","j","k","l","m",
                "n","o","p","q","r","s","t","u","v","w","x","y","z">>

ToLowerChar(ch) ==
    IF \E i \in 1..26 : UpperChars[i] = ch
    THEN LowerChars[CHOOSE i \in 1..26 : UpperChars[i] = ch]
    ELSE ch

\* strings.ToLower
ToLower(s) == [i \in 1..Len(s) |-> ToLowerChar(s[i])]

\* strings.Contains
Contains(s, substr) ==
    \E i \in 0..(Len(s) - Len(substr)) : SubSeq(s, i + 1, i + Len(substr)) = substr

ErrorWord == <<"e","r","r","o","r">>
DatadogWord == <<"d","a","t","a","d","o","g">>
SecretWord == <<"s","e","c","r","e","t">>

----------------------------------------------------------------------------
(* The data the external platform hands to the program.                    *)

\* Deployment.Status.Conditions: a rollout in progress, not yet and then
\* Available.
Progressing == [Type |-> "Progressing", Status |-> "True"]
NotAvailable == [Type |-> "Available", Status |-> "False"]
Available == [Type |-> "Available", Status |-> "True"]
LiveStatuses == { <<Progressing, NotAvailable>>, <<Progressing, Available>> }

\* ContainerStatus.State.Waiting: <<>> is the nil pointer, <<w>> points to w.
Reasons == {"ImagePullBackOff", "ErrImagePull", "CreateContainerConfigError",
            "CrashLoopBackOff"}
MsgSecret == <<"n","o"," ","s","e","c","r","e","t">>
MsgConfigMap == <<"n","o"," ","c","o","n","f","i","g","m","a","p">>
MsgSecretCapital == <<"S","e","c","r","e","t"," ","g","o","n","e">>
Messages == {MsgSecret, MsgConfigMap, MsgSecretCapital}
WaitingStates == {<<>>} \cup {<<w>> : w \in [Reason : Reasons, Message : Messages]}

\* v1.ContainerStatus: the fields the program reads, and Terminated.
Snapshots ==
    [Ready : BOOLEAN,
     State : [Running : BOOLEAN, Terminated : BOOLEAN, Waiting : WaitingStates]]

Container(ready, running, terminated, waiting) ==
    [Ready |-> ready,
     State |-> [Running |-> running, Terminated |-> terminated, Waiting |-> waiting]]

Healthy == Container(TRUE, TRUE, FALSE, <<>>)
Crashed == Container(FALSE, FALSE, TRUE, <<>>)
PullFailing ==
    Container(FALSE, FALSE, FALSE,
              <<[Reason |-> "ImagePullBackOff", Message |-> MsgSecret]>>)
SmallPool == {Healthy, Crashed, PullFailing}

\* v1.Pod: Spec.ImagePullSecrets (names) and Status.ContainerStatuses.
Pod(secrets, containers) ==
    [ImagePullSecrets |-> secrets, ContainerStatuses |-> containers]
PullSecretLists ==
    { <<>>, <<[Name |-> "regcred"]>>, <<[Name |-> "other"], [Name |-> "regcred"]>> }

SeqsUpTo(S, n) == UNION { [1..k -> S] : k \in 0..n }

RECURSIVE TotalContainers(_)
TotalContainers(pl) ==
    IF pl = <<>> THEN 0
    ELSE Len(pl[1].ContainerStatuses) + TotalContainers(Tail(pl))

\* One pod with one container of any kind, with any pull secrets.
SingleLists ==
    { <<Pod(ps, <<c>>)>> : ps \in PullSecretLists, c \in Snapshots }
\* Up to MaxContainers pods holding up to MaxContainers containers in all.
SmallPods == { Pod(<<[Name |-> "regcred"]>>, cs) : cs \in SeqsUpTo(SmallPool, MaxContainers) }
MultiLists ==
    { pl \in SeqsUpTo(SmallPods, MaxContainers) : TotalContainers(pl) <= MaxContainers }
PodLists == SingleLists \cup MultiLists

\* Log lines.
ErrLine(i) == ErrorWord \o <<" ", LowerChars[i]>>
UpperErrLine == <<"E","R","R","O","R"," ","x">>
DatadogErrLine == <<"D","a","t","a","D","o","g"," ","e","r","r","o","r">>
InfoLine == <<"i","n","f","o"," ","o","k">>
Streams == SeqsUpTo({ErrLine(1), DatadogErrLine}, MaxLines)

\* Longer streams, for a scan taken alone: distinct error lines in two
\* orders, a few lines over and over, one line five times among distinct
\* ones, and error lines mixed with lines the filter drops.
Recurring(i, period) == ErrLine(((i - 1) % period) + 1)
FiveRepeats(i) == IF i % 2 = 1 /\ i <= 9 THEN ErrLine(1) ELSE ErrLine(i)
Mixed(i) ==
    CASE i % 3 = 1 -> ErrLine(i)
      [] i % 3 = 2 -> UpperErrLine
      [] OTHER -> DatadogErrLine
LongStreams ==
    UNION { { [i \in 1..n |-> ErrLine(i)],
              [i \in 1..n |-> ErrLine(26 - i)],
              [i \in 1..n |-> Recurring(i, 2)],
              [i \in 1..n |-> Recurring(i, 9)],
              [i \in 1..n |-> FiveRepeats(i)],
              [i \in 1..n |-> Mixed(i)] } : n \in 0..MaxLong }

\* Lines that do not fit the read buffer: "error" in the first BufSize bytes
\* and "datadog" after them, "error" on both sides of byte BufSize, "error"
\* across byte BufSize; and an error line of BufSize bytes and one of a
\* byte less.
Padding(n) == [i \in 1..n |-> "x"]
SplitDatadogLine == ErrorWord \o Padding(BufSize) \o DatadogWord
TwiceErrorLine == ErrorWord \o Padding(BufSize) \o ErrorWord
StraddleLine == Padding(BufSize - 2) \o ErrorWord
FullBufferLine == ErrorWord \o Padding(BufSize - Len(ErrorWord))
FittingLine == ErrorWord \o Padding(BufSize - Len(ErrorWord) - 1)
WideStreams ==
    { <<SplitDatadogLine>>, <<TwiceErrorLine, ErrLine(1)>>,
      <<ErrLine(1), StraddleLine>>, <<FullBufferLine, ErrLine(1)>>,
      <<FittingLine, ErrLine(1)>> }

\* The streams whose lines all fit the read buffer, and all streams.
FittingStreams ==
    LongStreams \cup SeqsUpTo({ErrLine(1), UpperErrLine, DatadogErrLine, InfoLine}, MaxLines)

ScanStreams == FittingStreams \cup WideStreams

----------------------------------------------------------------------------
(* The program.                                                            *)

Init ==
    /\ pc = "homeDir"
    /\ exitCode = -1
    /\ outcome = "None"
    /\ cluster \in LiveStatuses
    /\ deployment = <<>>
    /\ pods = <<>>
    /\ count = 0
    /\ queries = 0
    /\ sleeps = 0
    /\ diagCalls = 0
    /\ podIdx = 0
    /\ ctrIdx = 0
    /\ report = <<>>
    /\ secretGets = <<>>
    /\ podLogs = "none"
    /\ stream = <<>>
    /\ pos = 0
    /\ consumed = 0
    /\ broken = FALSE
    /\ readErrs = 0
    /\ lineCount = 0
    /\ seenLines = {}
    /\ evidence = <<>>
    /\ opens = 0
    /\ closes = 0

\* A process that ends with exit status 0 whatever ended it.
ExitZero(code) ==
    /\ pc' = "exited"
    /\ exitCode' = 0

\* os.Exit(1), log.Fatalf (exit status 1) and a run-time panic (exit status 2).
Exit(code) ==
    /\ pc' = "exited"
    /\ exitCode' = code

\* The rollout goes on in the cluster while the program sets up and polls.
ClusterChange ==
    /\ pc \in {"homeDir", "kubeConfig", "client", "getDeployment", "listPods",
               "loop", "sleep"}
    /\ cluster' \in LiveStatuses \ {cluster}
    /\ UNCHANGED <<pc, exitCode, outcome, deployment, pods, count, queries,
                   sleeps, diagCalls, diagVars, scanVars>>

UserHomeDir ==
    /\ pc = "homeDir"
    /\ \/ pc' = "kubeConfig" /\ UNCHANGED exitCode
       \/ Exit(1)
    /\ UNCHANGED <<outcome, mainVars, diagVars, scanVars>>

BuildConfigFromFlags ==
    /\ pc = "kubeConfig"
    /\ \/ pc' = "client" /\ UNCHANGED exitCode
       \/ Exit(1)
    /\ UNCHANGED <<outcome, mainVars, diagVars, scanVars>>

getClientWithoutWarnings ==
    /\ pc = "client"
    /\ \/ pc' = "getDeployment" /\ UNCHANGED exitCode
       \/ Exit(1)
    /\ UNCHANGED <<outcome, mainVars, diagVars, scanVars>>

GetDeployment ==
    /\ pc = "getDeployment"
    /\ \/ /\ pc' = "listPods"
          /\ deployment' = cluster
          /\ UNCHANGED exitCode
       \/ /\ Exit(1)
          /\ UNCHANGED deployment
    /\ UNCHANGED <<outcome, cluster, pods, count, queries, sleeps, diagCalls,
                   diagVars, scanVars>>

\* Lines 59-67: the pod list, then count := 6.
ListPods ==
    /\ pc = "listPods"
    /\ \/ /\ pods' \in PodLists
          /\ count' = MaxAttempts
          /\ pc' = "loop"
          /\ UNCHANGED exitCode
       \/ /\ Exit(1)
          /\ UNCHANGED <<pods, count>>
    /\ UNCHANGED <<outcome, cluster, deployment, queries, sleeps, diagCalls,
                   diagVars, scanVars>>

printDeploymentStatus(d) ==
    \E i \in 1..Len(d) : d[i].Type = "Available" /\ d[i].Status = "True"

\* The first pod from index p on that has a container, Len(pods) + 1 if none.
NextPod(p) ==
    IF \E q \in p..Len(pods) : pods[q].ContainerStatuses # <<>>
    THEN CHOOSE q \in p..Len(pods) :
            /\ pods[q].ContainerStatuses # <<>>
            /\ \A r \in p..(q - 1) : pods[r].ContainerStatuses = <<>>
    ELSE Len(pods) + 1

\* The last attempt taken to be the one after the counter ran out.
LastAttemptOffByOne(c) == c = 0

\* Line 73.
LastAttempt(c) == c = 1

\* A ready attempt that lowers the counter by one instead of clearing it.
AttemptReadyDecrements ==
    /\ pc = "loop"
    /\ count > 0
    /\ printDeploymentStatus(deployment)
    /\ queries' = queries + 1
    /\ outcome' = "Success"
    /\ count' = count - 1
    /\ UNCHANGED <<pc, exitCode, cluster, deployment, pods, sleeps, diagCalls,
                   diagVars, scanVars>>

\* Lines 69-72.
AttemptReady ==
    /\ pc = "loop"
    /\ count > 0
    /\ printDeploymentStatus(deployment)
    /\ queries' = queries + 1
    /\ outcome' = "Success"
    /\ count' = 0
    /\ UNCHANGED <<pc, exitCode, cluster, deployment, pods, sleeps, diagCalls,
                   diagVars, scanVars>>

\* Lines 73-75: the last attempt failed, printPodStatus is entered.
AttemptLast ==
    /\ pc = "loop"
    /\ count > 0
    /\ ~printDeploymentStatus(deployment)
    /\ LastAttempt(count)
    /\ queries' = queries + 1
    /\ diagCalls' = diagCalls + 1
    /\ podIdx' = NextPod(1)
    /\ ctrIdx' = 1
    /\ pc' = "podStatus"
    /\ UNCHANGED <<exitCode, outcome, cluster, deployment, pods, count, sleeps,
                   report, secretGets, scanVars>>

\* A failed attempt that fetches the deployment again before it sleeps.
AttemptRetryRefetches ==
    /\ pc = "loop"
    /\ count > 0
    /\ ~printDeploymentStatus(deployment)
    /\ ~LastAttempt(count)
    /\ queries' = queries + 1
    /\ deployment' = cluster
    /\ pc' = "sleep"
    /\ UNCHANGED <<exitCode, outcome, cluster, pods, count, sleeps,
                   diagCalls, diagVars, scanVars>>

\* Lines 78-80: the attempt failed and is not the last, time.Sleep is entered.
AttemptRetry ==
    /\ pc = "loop"
    /\ count > 0
    /\ ~printDeploymentStatus(deployment)
    /\ ~LastAttempt(count)
    /\ queries' = queries + 1
    /\ pc' = "sleep"
    /\ UNCHANGED <<exitCode, outcome, cluster, deployment, pods, count, sleeps,
                   diagCalls, diagVars, scanVars>>

\* A sleep after which the pods are listed again.
SleepDoneRelists ==
    /\ pc = "sleep"
    /\ sleeps' = sleeps + 1
    /\ count' = count - 1
    /\ pods' \in PodLists
    /\ pc' = "loop"
    /\ UNCHANGED <<exitCode, outcome, cluster, deployment, queries,
                   diagCalls, diagVars, scanVars>>

\* Lines 80-81: time.Sleep returns, count = count - 1.
SleepDone ==
    /\ pc = "sleep"
    /\ sleeps' = sleeps + 1
    /\ count' = count - 1
    /\ pc' = "loop"
    /\ UNCHANGED <<exitCode, outcome, cluster, deployment, pods, queries,
                   diagCalls, diagVars, scanVars>>

\* Lines 68 and 84: count > 0 is false, main returns.
MainReturn ==
    /\ pc = "loop"
    /\ ~(count > 0)
    /\ Exit(0)
    /\ UNCHANGED <<outcome, mainVars, diagVars, scanVars>>

----------------------------------------------------------------------------
(* printPodStatus.                                                         *)

\* The branches with the Ready flag left out of the first test.
ContainerActionIgnoresReady(container) ==
    IF ~container.State.Running
    THEN IF container.State.Waiting # <<>>
         THEN IF \/ container.State.Waiting[1].Reason = "ImagePullBackOff"
                 \/ container.State.Waiting[1].Reason = "ErrImagePull"
              THEN "imagePull"
              ELSE IF container.State.Waiting[1].Reason = "CreateContainerConfigError"
                   THEN "configError"
                   ELSE "logScan"
         ELSE "logScan"
    ELSE "running"

\* The branches with the first test true only when the container is both
\* not running and not ready.
ContainerActionBothFail(container) ==
    IF ~container.State.Running /\ ~container.Ready
    THEN IF container.State.Waiting # <<>>
         THEN IF \/ container.State.Waiting[1].Reason = "ImagePullBackOff"
                 \/ container.State.Waiting[1].Reason = "ErrImagePull"
              THEN "imagePull"
              ELSE IF container.State.Waiting[1].Reason = "CreateContainerConfigError"
                   THEN "configError"
                   ELSE "logScan"
         ELSE "logScan"
    ELSE "running"

\* Lines 141-171: which branch handles a container.
ContainerAction(container) ==
    IF ~container.State.Running \/ ~container.Ready
    THEN IF container.State.Waiting # <<>>
         THEN IF \/ container.State.Waiting[1].Reason = "ImagePullBackOff"
                 \/ container.State.Waiting[1].Reason = "ErrImagePull"
              THEN "imagePull"
              ELSE IF container.State.Waiting[1].Reason = "CreateContainerConfigError"
                   THEN "configError"
                   ELSE "logScan"
         ELSE "logScan"
    ELSE "running"

\* The hint chosen with the letter case of the message ignored.
ConfigErrorHintAnyCase(message) ==
    IF Contains(ToLower(message), SecretWord) THEN "secretKeyRef" ELSE "configMapKeyRef"

\* Line 156: which hint explains a CreateContainerConfigError.
ConfigErrorHint(message) ==
    IF Contains(message, SecretWord) THEN "secretKeyRef" ELSE "configMapKeyRef"

\* The explanation with only a NotFound answer taken as a missing secret.
PullExplanationNotFoundOnly(lookup) ==
    IF lookup = "notFound" THEN "missing" ELSE "present"

\* Lines 148-152: which explanation follows the secret lookup.
PullExplanation(lookup) ==
    IF lookup # "found" THEN "missing" ELSE "present"

\* Line 30: the namespace the run was started for.
Namespace == "team-a"

\* Line 146.
SecretName(pod) == pod.ImagePullSecrets[1].Name

\* Line 147: a lookup, with its result and the container it was made for.
Lookup(name, result, container) ==
    [Namespace |-> Namespace, Name |-> name, Result |-> result, For |-> container]

\* The two range loops: the container handled after container c of pod p.
Advance(p, c) ==
    IF c < Len(pods[p].ContainerStatuses)
    THEN <<p, c + 1>>
    ELSE <<NextPod(p + 1), 1>>

Entry(class, note) == [class |-> class, note |-> note]

\* Line 170.
ContainerRunning ==
    /\ pc = "podStatus"
    /\ podIdx <= Len(pods)
    /\ ContainerAction(pods[podIdx].ContainerStatuses[ctrIdx]) = "running"
    /\ report' = Append(report, Entry("running", "running"))
    /\ podIdx' = Advance(podIdx, ctrIdx)[1]
    /\ ctrIdx' = Advance(podIdx, ctrIdx)[2]
    /\ UNCHANGED <<pc, exitCode, outcome, mainVars, secretGets, scanVars>>

\* Lines 144-152.  ImagePullSecrets[0] of an empty slice is a run-time panic.
ContainerImagePull ==
    /\ pc = "podStatus"
    /\ podIdx <= Len(pods)
    /\ ContainerAction(pods[podIdx].ContainerStatuses[ctrIdx]) = "imagePull"
    /\ \/ /\ pods[podIdx].ImagePullSecrets = <<>>
          /\ report' = Append(report, Entry("imagePull", "panic"))
          /\ Exit(2)
          /\ UNCHANGED <<podIdx, ctrIdx, secretGets>>
       \/ /\ pods[podIdx].ImagePullSecrets # <<>>
          /\ \E lookup \in {"found", "notFound", "otherError"} :
                /\ report' = Append(report, Entry("imagePull", PullExplanation(lookup)))
                /\ secretGets' = Append(secretGets,
                      Lookup(SecretName(pods[podIdx]), lookup, Len(report) + 1))
          /\ podIdx' = Advance(podIdx, ctrIdx)[1]
          /\ ctrIdx' = Advance(podIdx, ctrIdx)[2]
          /\ UNCHANGED <<pc, exitCode>>
    /\ UNCHANGED <<outcome, mainVars, scanVars>>

\* Lines 154-162.
ContainerConfigError ==
    /\ pc = "podStatus"
    /\ podIdx <= Len(pods)
    /\ ContainerAction(pods[podIdx].ContainerStatuses[ctrIdx]) = "configError"
    /\ report' = Append(report,
          Entry("configError",
                ConfigErrorHint(pods[podIdx].ContainerStatuses[ctrIdx].State.Waiting[1].Message)))
    /\ podIdx' = Advance(podIdx, ctrIdx)[1]
    /\ ctrIdx' = Advance(podIdx, ctrIdx)[2]
    /\ UNCHANGED <<pc, exitCode, outcome, mainVars, secretGets, scanVars>>

\* Lines 164 and 167: getPodlogs is called.
ContainerLogScan ==
    /\ pc = "podStatus"
    /\ podIdx <= Len(pods)
    /\ ContainerAction(pods[podIdx].ContainerStatuses[ctrIdx]) = "logScan"
    /\ report' = Append(report, Entry("logScan", "called"))
    /\ pc' = "getPodlogs"
    /\ UNCHANGED <<exitCode, outcome, mainVars, podIdx, ctrIdx, secretGets, scanVars>>

\* Lines 76-77: printPodStatus has returned, log.Fatalf("Deployment failed.").
DeploymentFailed ==
    /\ pc = "podStatus"
    /\ podIdx > Len(pods)
    /\ outcome' = "Failure"
    /\ Exit(1)
    /\ UNCHANGED <<mainVars, diagVars, scanVars>>

----------------------------------------------------------------------------
(* getPodlogs.                                                             *)

\* Line 122.
Qualifies(line) ==
    /\ Contains(ToLower(line), ErrorWord)
    /\ ~Contains(ToLower(line), DatadogWord)

\* The cap tested with > instead of >=.
CapReachedLate(n) == n > EvidenceCap

\* Line 128.
CapReached(n) == n >= EvidenceCap

SetNote(note) == [report EXCEPT ![Len(report)].note = note]

\* Lines 103-112.  Stream returns a nil ReadCloser with its error, and
\* evaluating podLogs.Close on the nil interface at line 108 is a run-time
\* panic.
GetPodlogs ==
    /\ pc = "getPodlogs"
    /\ \/ /\ podLogs' = "nil"
          /\ report' = SetNote("openError")
          /\ Exit(2)
          /\ UNCHANGED <<stream, opens>>
       \/ /\ podLogs' = "open"
          /\ stream' \in Streams
          /\ opens' = opens + 1
          /\ report' = SetNote("scanning")
          /\ pc' = "readLine"
          /\ UNCHANGED exitCode
    /\ pos' = 0
    /\ consumed' = 0
    /\ broken' = FALSE
    /\ readErrs' = 0
    /\ lineCount' = 0
    /\ seenLines' = {}
    /\ evidence' = <<>>
    /\ UNCHANGED <<outcome, mainVars, podIdx, ctrIdx, secretGets, closes>>

\* Lines 121-132 for the line ReadLine returned.
Process(line) ==
    IF Qualifies(line) /\ line \notin seenLines
    THEN /\ evidence' = Append(evidence, line)
         /\ seenLines' = seenLines \cup {line}
         /\ lineCount' = lineCount + 1
         /\ pc' = IF CapReached(lineCount + 1) THEN "scanReturn" ELSE "readLine"
    ELSE /\ pc' = "readLine"
         /\ UNCHANGED <<evidence, seenLines, lineCount>>

\* The bytes of the line that ReadLine has not returned yet.
Unread(line, done) == SubSeq(line, done + 1, Len(line))

\* bufio's ReadLine: the buffer is full before the line end is in it.
IsPrefix(line, done) == Len(Unread(line, done)) >= BufSize

\* Lines 114-132: ReadLine returns the rest of the next line or, when that
\* does not fit the buffer with its line end, the next BufSize bytes of it;
\* isPrefix is dropped at line 114 and either is filtered as a line.
ReadLine ==
    /\ pc = "readLine"
    /\ ~broken
    /\ pos < Len(stream)
    /\ IF IsPrefix(stream[pos + 1], consumed)
       THEN /\ consumed' = consumed + BufSize
            /\ pos' = pos
            /\ Process(SubSeq(Unread(stream[pos + 1], consumed), 1, BufSize))
       ELSE /\ consumed' = 0
            /\ pos' = pos + 1
            /\ Process(Unread(stream[pos + 1], consumed))
    /\ UNCHANGED <<exitCode, outcome, mainVars, diagVars, podLogs, stream,
                   broken, readErrs, opens, closes>>

\* Lines 115-118: ReadLine returns io.EOF.
ReadEOF ==
    /\ pc = "readLine"
    /\ ~broken
    /\ pos = Len(stream)
    /\ pc' = "scanReturn"
    /\ UNCHANGED <<exitCode, outcome, mainVars, diagVars, scanVars>>

\* Lines 114-120: ReadLine returns a nil line and an error that is not EOF,
\* and the error is printed.  The stream recovers after the error, or it is
\* broken and fails every later read as well.
ReadError ==
    /\ pc = "readLine"
    /\ \/ /\ ~broken
          /\ readErrs < MaxReadErrs
          /\ readErrs' = readErrs + 1
          /\ UNCHANGED broken
       \/ /\ broken' = TRUE
          /\ UNCHANGED readErrs
    /\ pc' = "readFailed"
    /\ UNCHANGED <<exitCode, outcome, mainVars, diagVars, podLogs, stream, pos,
                   consumed, lineCount, seenLines, evidence, opens, closes>>

\* Lines 121-132 after a read error: the empty line is filtered like any
\* other and the loop goes on.
ReadErrorLine ==
    /\ pc = "readFailed"
    /\ Process(<<>>)
    /\ UNCHANGED <<exitCode, outcome, mainVars, diagVars, podLogs, stream, pos,
                   consumed, broken, readErrs, opens, closes>>

\* getPodlogs returning with no deferred Close.
GetPodlogsReturnNoClose ==
    /\ pc = "scanReturn"
    /\ report' = SetNote("scanned")
    /\ podIdx' = Advance(podIdx, ctrIdx)[1]
    /\ ctrIdx' = Advance(podIdx, ctrIdx)[2]
    /\ pc' = "podStatus"
    /\ stream' = <<>>
    /\ pos' = 0
    /\ consumed' = 0
    /\ broken' = FALSE
    /\ readErrs' = 0
    /\ lineCount' = 0
    /\ seenLines' = {}
    /\ evidence' = <<>>
    /\ UNCHANGED <<exitCode, outcome, mainVars, secretGets, podLogs, opens, closes>>

\* Lines 108 and 134: getPodlogs returns, the deferred Close runs and
\* printPodStatus goes on with the next container.
GetPodlogsReturn ==
    /\ pc = "scanReturn"
    /\ podLogs' = "closed"
    /\ closes' = closes + 1
    /\ report' = SetNote("scanned")
    /\ podIdx' = Advance(podIdx, ctrIdx)[1]
    /\ ctrIdx' = Advance(podIdx, ctrIdx)[2]
    /\ pc' = "podStatus"
    /\ stream' = <<>>
    /\ pos' = 0
    /\ consumed' = 0
    /\ broken' = FALSE
    /\ readErrs' = 0
    /\ lineCount' = 0
    /\ seenLines' = {}
    /\ evidence' = <<>>
    /\ UNCHANGED <<exitCode, outcome, mainVars, secretGets, opens>>

----------------------------------------------------------------------------
(* The whole program, and the program under its sequential scheduling.     *)

Step ==
    \/ UserHomeDir
    \/ BuildConfigFromFlags
    \/ getClientWithoutWarnings
    \/ GetDeployment
    \/ ListPods
    \/ AttemptReady
    \/ AttemptLast
    \/ AttemptRetry
    \/ SleepDone
    \/ MainReturn
    \/ ContainerRunning
    \/ ContainerImagePull
    \/ ContainerConfigError
    \/ ContainerLogScan
    \/ DeploymentFailed
    \/ GetPodlogs
    \/ ReadLine
    \/ ReadEOF
    \/ ReadError
    \/ ReadErrorLine
    \/ GetPodlogsReturn

Next == Step \/ ClusterChange

Spec == Init /\ [][Next]_vars

\* The process is one goroutine: while it has a next statement it runs it.
FairSpec == Spec /\ WF_vars(Step)

\* getPodlogs taken alone: the run has reached the read loop of the scan of
\* a crashed container, with a log stream opened.
ScanStart ==
    /\ pc = "readLine"
    /\ exitCode = -1
    /\ outcome = "None"
    /\ cluster = <<Progressing, NotAvailable>>
    /\ deployment = <<Progressing, NotAvailable>>
    /\ pods = <<Pod(<<[Name |-> "regcred"]>>, <<Crashed>>)>>
    /\ count = 1
    /\ queries = MaxAttempts
    /\ sleeps = MaxAttempts - 1
    /\ diagCalls = 1
    /\ podIdx = 1
    /\ ctrIdx = 1
    /\ report = <<Entry("logScan", "scanning")>>
    /\ secretGets = <<>>
    /\ podLogs = "open"
    /\ pos = 0
    /\ consumed = 0
    /\ broken = FALSE
    /\ readErrs = 0
    /\ lineCount = 0
    /\ seenLines = {}
    /\ evidence = <<>>
    /\ opens = 1
    /\ closes = 0

\* The opened stream is any of ScanStreams.
ScanInit == ScanStart /\ stream \in ScanStreams

ScanNext == ReadLine \/ ReadEOF \/ ReadError \/ ReadErrorLine \/ GetPodlogsReturn

ScanSpec == ScanInit /\ [][ScanNext]_vars

\* The scan of a stream of lines that fit the buffer, under the sequential
\* scheduling of its goroutine.
FittingScanInit == ScanStart /\ stream \in FittingStreams

FairScanSpec == FittingScanInit /\ [][ScanNext]_vars /\ WF_vars(ScanNext)

----------------------------------------------------------------------------
(* The poll loop.                                                          *)

\* The poll loop has been entered and has not decided yet.
Polling == pc \in {"loop", "sleep"} /\ outcome = "None"

\* The workload's Available condition in the cluster, now.
LiveAvailable == \E i \in 1..Len(cluster) : cluster[i] = Available

\* C1: with the budget of 6 attempts a run makes at most 6 readiness
\* queries and at most 5 sleeps; a sleep follows each not-ready attempt that
\* is not the last one, and none follows a ready attempt or the last
\* attempt; the attempt counter starts at 6, never increases, and each
\* sleep lowers it by exactly 1.
C1_AttemptBudget ==
    /\ [](/\ queries <= 6
          /\ sleeps <= 5
          /\ (pc = "sleep" => outcome = "None" /\ sleeps = queries - 1)
          /\ (pc = "loop" /\ outcome = "None" => sleeps = queries)
          /\ (outcome = "Success" => sleeps = queries - 1)
          /\ (diagCalls > 0 => queries = 6 /\ sleeps = 5)
          /\ (Polling => count = 6 - sleeps))
    /\ [][/\ (pc = "listPods" /\ pc' = "loop" => count' = 6)
          /\ (pc # "listPods" => count' <= count)
          /\ (sleeps' # sleeps => /\ sleeps' = sleeps + 1
                                  /\ count' = count - 1
                                  /\ pc = "sleep"
                                  /\ queries' = queries)
          /\ (queries' # queries =>
                /\ queries' = queries + 1
                /\ (pc' = "sleep") = (outcome' = "None" /\ diagCalls' = diagCalls))]_vars

\* C1 witness: the fifth sleep is over and the sixth attempt is due.
C1_Witness == pc = "loop" /\ count = 1 /\ sleeps = 5 /\ queries = 5

\* C2: an attempt whose readiness check is true ends the poll loop with
\* Success: no query, sleep, secret lookup or log stream follows, no
\* diagnostics has run, and the process can only end, with exit status 0.
C2_ReadyStops ==
    /\ [](outcome = "Success" =>
            /\ count = 0
            /\ sleeps = queries - 1
            /\ diagCalls = 0 /\ report = <<>>
            /\ secretGets = <<>> /\ opens = 0 /\ podLogs = "none"
            /\ exitCode \in {-1, 0}
            /\ (exitCode = -1 => pc = "loop" /\ ENABLED MainReturn))
    /\ [][/\ (queries' # queries /\ printDeploymentStatus(deployment)
                => outcome' = "Success")
          /\ (outcome = "Success" =>
                /\ outcome' = "Success"
                /\ queries' = queries
                /\ sleeps' = sleeps
                /\ (pc' # pc => exitCode' = 0))]_vars

\* C2 witness: the first attempt was ready and the process has ended.
C2_Witness == outcome = "Success" /\ queries = 1 /\ exitCode = 0

\* C3: when every one of the 6 attempts is not ready, the run reports
\* Failure with a non-zero exit, and printPodStatus runs exactly once, only
\* after the sixth failed query, and returns before the failure is reported.
C3_FailureReported ==
    /\ (diagCalls > 0 => diagCalls = 1 /\ queries = 6)
    /\ (exitCode # -1 /\ queries = 6 /\ outcome # "Success" =>
            /\ outcome = "Failure"
            /\ exitCode # 0
            /\ diagCalls = 1
            /\ podIdx > Len(pods))

\* C4: the readiness an attempt tests is the workload's Available condition
\* at the time of that attempt.
C4_FreshReadiness ==
    [][queries' # queries => (outcome' = "Success") = LiveAvailable]_vars

\* C5: an attempt after the first, made when the workload has become
\* Available, ends the run in Success with as many queries as attempts,
\* one sleep fewer and no diagnostics.
C5_LateSuccess ==
    [][queries' # queries /\ queries >= 1 /\ LiveAvailable =>
            /\ outcome' = "Success"
            /\ sleeps' = queries' - 1
            /\ diagCalls' = 0]_vars

\* C6: every run that has entered the poll loop terminates, whatever the
\* readiness, the secret lookups and the log streams turn out to be.
C6_Terminates == (pc = "loop") ~> (pc = "exited")

----------------------------------------------------------------------------
(* Diagnostics.                                                            *)

\* The containers of a pod list in the order printPodStatus walks them.
RECURSIVE AllContainers(_)
AllContainers(pl) ==
    IF pl = <<>> THEN <<>>
    ELSE pl[1].ContainerStatuses \o AllContainers(Tail(pl))

\* The classification rules as stated, the first that matches deciding.
RuleClass(c) ==
    LET waitingFor(reasons) ==
            c.State.Waiting # <<>> /\ c.State.Waiting[1].Reason \in reasons
    IN  CASE c.State.Running /\ c.Ready -> "running"
          [] waitingFor({"ImagePullBackOff", "ErrImagePull"}) -> "imagePull"
          [] waitingFor({"CreateContainerConfigError"}) -> "configError"
          [] OTHER -> "logScan"

\* C7: every container handled gets exactly one of the four actions, the
\* one the rules give for its snapshot in their priority order, so equal
\* snapshots get equal actions; a report that is complete has one entry per
\* container.
C7_Classification ==
    /\ Len(report) <= Len(AllContainers(pods))
    /\ \A i \in 1..Len(report) :
          /\ report[i].class \in {"running", "imagePull", "configError", "logScan"}
          /\ report[i].class = RuleClass(AllContainers(pods)[i])
    /\ \A i, j \in 1..Len(report) :
          AllContainers(pods)[i] = AllContainers(pods)[j]
              => report[i].class = report[j].class
    /\ (outcome = "Failure" => Len(report) = Len(AllContainers(pods)))

\* C7 witness: a report is complete in which a running container and an
\* image pull failure were both handled.
C7_Witness ==
    /\ outcome = "Failure"
    /\ Len(report) = 2
    /\ {report[1].class, report[2].class} = {"running", "imagePull"}

\* C10: when opening a container's log stream fails the failure is
\* reported, the process is not aborted, and if it has ended it ended with
\* the Failure report.
C10_OpenFailureSurvives ==
    \A i \in 1..Len(report) :
        report[i].note = "openError" =>
            /\ exitCode \in {-1, 1}
            /\ (exitCode = 1 => outcome = "Failure")

----------------------------------------------------------------------------
(* The log scan.                                                           *)

\* Two characters that are the same letter in any case.
SameLetter(a, b) ==
    a = b \/ \E k \in 1..26 : {a, b} = {UpperChars[k], LowerChars[k]}

\* The line holds the (lower-case) word, letter case aside.
HoldsWord(line, word) ==
    \E off \in 0..(Len(line) - Len(word)) :
        \A k \in 1..Len(word) : SameLetter(line[off + k], word[k])

IsEvidence(line) == HoldsWord(line, ErrorWord) /\ ~HoldsWord(line, DatadogWord)

\* The distinct evidence lines among the first n lines of the stream.
EvidenceUpTo(n) == { stream[i] : i \in { k \in 1..n : IsEvidence(stream[k]) } }

\* Where the stream first holds line l.
FirstAt(l) == CHOOSE i \in 1..Len(stream) :
                 stream[i] = l /\ \A k \in 1..(i - 1) : stream[k] # l

\* The line with which the tenth distinct evidence line is complete, the
\* whole stream if there are fewer.
StopAt ==
    IF \E n \in 1..Len(stream) : Cardinality(EvidenceUpTo(n)) = 10
    THEN CHOOSE n \in 1..Len(stream) :
            /\ Cardinality(EvidenceUpTo(n)) = 10
            /\ \A m \in 1..(n - 1) : Cardinality(EvidenceUpTo(m)) < 10
    ELSE Len(stream)

\* C8: at every point of a scan the evidence has at most 10 entries, no two
\* of them equal, each holding "error" and not "datadog" in any letter case.
C8_EvidenceBounded ==
    /\ Len(evidence) <= 10
    /\ \A i, j \in 1..Len(evidence) : i # j => evidence[i] # evidence[j]
    /\ \A i \in 1..Len(evidence) : IsEvidence(evidence[i])

\* C8 witness: the scan has collected 10 lines.
C8_Witness == pc = "scanReturn" /\ Len(evidence) = 10

\* C9: a scan that met no read error returns the first 10 distinct evidence
\* lines of the stream in the order of their first occurrence (all of them
\* if fewer), and has read no line after the one that completed them.
C9_FirstTenDistinct ==
    pc = "scanReturn" /\ readErrs = 0 /\ ~broken =>
        /\ pos = StopAt
        /\ Len(evidence) = Cardinality(EvidenceUpTo(StopAt))
        /\ { evidence[i] : i \in 1..Len(evidence) } = EvidenceUpTo(StopAt)
        /\ \A i, j \in 1..Len(evidence) :
              i < j => FirstAt(evidence[i]) < FirstAt(evidence[j])

\* C11: after a read error other than EOF the scan is not aborted and
\* still finishes: it leaves the read loop and returns, also when the error
\* comes back on every following read.
C11_ScanFinishes == (pc = "readFailed") ~> (pc = "scanReturn")

----------------------------------------------------------------------------
(* The explanations of the known waiting reasons.                          *)

\* For each container of a pod list, in the order walked, the pod it is in.
RECURSIVE PodOfEach(_)
PodOfEach(pl) ==
    IF pl = <<>> THEN <<>>
    ELSE [i \in 1..Len(pl[1].ContainerStatuses) |-> pl[1]] \o PodOfEach(Tail(pl))

\* The lookups made for the container handled i-th.
LookupsFor(i) == { k \in 1..Len(secretGets) : secretGets[k].For = i }

\* The line holds the word in exactly this letter case.
HoldsExactly(line, word) ==
    \E off \in 0..(Len(line) - Len(word)) :
        \A k \in 1..Len(word) : line[off + k] = word[k]

\* C12: an image pull failure in a pod without image pull secrets is
\* flagged in the report and does not crash the run.
C12_NoSecretsFlagged ==
    \A i \in 1..Len(report) :
        /\ report[i].class = "imagePull"
        /\ PodOfEach(pods)[i].ImagePullSecrets = <<>>
        => report[i].note # "panic" /\ exitCode # 2

\* C13: for every image pull failure exactly one secret is looked up, the
\* pod's first, in the namespace of the run; a secret not found is
\* explained as missing, a secret found as present with values that may be
\* wrong; no log is scanned for the container and the run is not aborted.
C13_OneLookup ==
    /\ \A i \in 1..Len(report) :
          report[i].class = "imagePull" =>
             /\ report[i].note # "panic"
             /\ Cardinality(LookupsFor(i)) = 1
             /\ \A k \in LookupsFor(i) :
                   /\ secretGets[k].Name = PodOfEach(pods)[i].ImagePullSecrets[1].Name
                   /\ secretGets[k].Namespace = "team-a"
                   /\ (secretGets[k].Result = "notFound" => report[i].note = "missing")
                   /\ (secretGets[k].Result = "found" => report[i].note = "present")
    /\ opens <= Cardinality({ i \in 1..Len(report) : report[i].class = "logScan" })

\* C14: for a CreateContainerConfigError the secretKeyRef hint is given
\* exactly when the waiting message holds "secret" in lower case, the
\* configMapKeyRef hint otherwise; no secret is looked up and no log is
\* scanned for the container.
C14_ConfigErrorHint ==
    /\ \A i \in 1..Len(report) :
          report[i].class = "configError" =>
             /\ report[i].note =
                   IF HoldsExactly(AllContainers(pods)[i].State.Waiting[1].Message,
                                   <<"s","e","c","r","e","t">>)
                   THEN "secretKeyRef" ELSE "configMapKeyRef"
             /\ LookupsFor(i) = {}
    /\ opens <= Cardinality({ i \in 1..Len(report) : report[i].class = "logScan" })

\* C14 witness: a message with "Secret" in upper case got the configMap
\* hint.
C14_Witness ==
    /\ Len(report) = 1
    /\ report[1] = [class |-> "configError", note |-> "configMapKeyRef"]
    /\ AllContainers(pods)[1].State.Waiting[1].Message = MsgSecretCapital

\* C20: in the image pull explanation the secret is called present only
\* when the lookup succeeded; every lookup error, NotFound or other, gives
\* the missing explanation, and diagnostics goes on after it.
C20_LookupErrors ==
    /\ [](\A k \in 1..Len(secretGets) :
            /\ secretGets[k].For \in 1..Len(report)
            /\ (report[secretGets[k].For].note = "present")
                  = (secretGets[k].Result = "found")
            /\ (secretGets[k].Result # "found"
                  => report[secretGets[k].For].note = "missing"))
    /\ [][Len(secretGets') > Len(secretGets) =>
            pc' = "podStatus" /\ exitCode' = -1]_vars

\* C20 witness: a lookup failed with an error other than NotFound, the
\* secret was explained as missing and the failure report is out.
C20_Witness ==
    /\ outcome = "Failure"
    /\ Len(secretGets) = 1 /\ secretGets[1].Result = "otherError"
    /\ report[secretGets[1].For].note = "missing"

----------------------------------------------------------------------------
(* The log stream, the exit status and what is fetched once.               *)

\* The scan of a log stream is between its open and its return.
Scanning == pc \in {"readLine", "readFailed", "scanReturn"}

\* C15: a log stream that was opened is closed exactly once when its scan
\* returns, after the end of the stream, after the cap of ten lines and
\* after read errors alike, and no stream is open outside a scan.
C15_StreamClosedOnce ==
    /\ [](/\ closes <= opens /\ opens <= closes + 1
          /\ (podLogs = "open") = (opens = closes + 1)
          /\ (~Scanning => podLogs # "open" /\ closes = opens))
    /\ [][pc = "scanReturn" =>
            closes' = closes + 1 /\ podLogs' = "closed" /\ ~Scanning']_vars
    /\ [][closes' # closes => pc = "scanReturn"]_vars

\* C15 witness: the scan has returned and its one stream is closed.
C15_Witness ==
    /\ pc = "podStatus"
    /\ opens = 1 /\ closes = 1
    /\ podLogs = "closed"
    /\ report[Len(report)].note = "scanned"

\* The steps before the poll loop.
SetupSteps == {"homeDir", "kubeConfig", "client", "getDeployment", "listPods"}

\* A setup step is taken; it leads to the next step or to the poll loop, or
\* it ends the run with a non-zero status and nothing queried or diagnosed.
SetupStepTaken == pc \in SetupSteps /\ pc' # pc

SetupGoesOn == pc' \in SetupSteps \cup {"loop"}

SetupAborts ==
    /\ pc' = "exited" /\ exitCode' # 0
    /\ queries' = 0 /\ sleeps' = 0 /\ diagCalls' = 0
    /\ report' = <<>> /\ opens' = 0

\* C16: the exit status is 0 exactly when readiness was confirmed and
\* non-zero otherwise, and a failure of a setup step ends the run at once
\* with a non-zero status, before any readiness query, sleep or diagnostics.
C16_ExitStatus ==
    /\ [](pc = "exited" =>
            /\ exitCode \in {0, 1, 2}
            /\ (exitCode = 0) = (outcome = "Success"))
    /\ [](pc \in SetupSteps =>
            queries = 0 /\ sleeps = 0 /\ diagCalls = 0 /\ report = <<>>)
    /\ [][SetupStepTaken => SetupGoesOn \/ SetupAborts]_vars

\* C16 witness: the pod list was not fetched, after the deployment was, and
\* the run ended with status 1 and no query.
C16_Witness ==
    /\ pc = "exited" /\ exitCode = 1
    /\ deployment # <<>> /\ pods = <<>>
    /\ queries = 0 /\ sleeps = 0 /\ diagCalls = 0

\* C17: the pods are listed once, before the first attempt, and the list is
\* not fetched again or changed afterwards: diagnostics gets the list as it
\* was before attempt 1.
C17_PodsFetchedOnce ==
    /\ [][pods' # pods => pc = "listPods" /\ queries = 0 /\ pc' = "loop"]_vars
    /\ [][pc' = "listPods" => pc \in {"getDeployment", "listPods"}]_vars
    /\ [](pc = "listPods" => queries = 0 /\ pods = <<>>)

\* C17 witness: diagnostics is entered after six queries and five sleeps
\* with a pod list in hand, while the cluster is not as it was fetched.
C17_Witness ==
    /\ pc = "podStatus"
    /\ pods # <<>>
    /\ queries = MaxAttempts /\ sleeps = MaxAttempts - 1
    /\ cluster # deployment

\* The run is past the poll loop, or has left it by way of diagnostics.
PastLoop == pc \notin SetupSteps \cup {"loop", "sleep"} /\ queries > 0

\* C18: the deployment is fetched once and the readiness test is a function
\* of it, so that every attempt of a run gives the same answer, and a run
\* that passed the setup makes either one query and no sleep, with success,
\* or six queries and five sleeps.
C18_QueryCounts ==
    /\ [][deployment' # deployment => pc = "getDeployment"]_vars
    /\ [](Polling /\ queries >= 1 => ~printDeploymentStatus(deployment))
    /\ [](outcome = "Success" =>
            queries = 1 /\ sleeps = 0 /\ printDeploymentStatus(deployment))
    /\ [](PastLoop /\ outcome # "Success" =>
            /\ queries = 6 /\ sleeps = 5
            /\ ~printDeploymentStatus(deployment))
    /\ [](PastLoop \/ outcome = "Success" =>
            <<queries, sleeps>> \in {<<1, 0>>, <<6, 5>>})

\* C18 witness: the run failed after six queries and five sleeps, with a
\* cluster that had become available in the meantime.
C18_Witness ==
    /\ outcome = "Failure"
    /\ queries = 6 /\ sleeps = 5
    /\ LiveAvailable

\* C19: a container that is Running and not ready is never reported as
\* running, and every container with no Waiting state that is not both
\* Running and ready is sent to the log scan.
C19_RunningNotReady ==
    \A i \in 1..Len(report) :
        /\ (/\ AllContainers(pods)[i].State.Running
            /\ ~AllContainers(pods)[i].Ready
            => report[i].class # "running")
        /\ (/\ AllContainers(pods)[i].State.Waiting = <<>>
            /\ ~(AllContainers(pods)[i].State.Running /\ AllContainers(pods)[i].Ready)
            => report[i].class = "logScan")

\* C19 witness: the log of a container that is Running, not ready and not
\* Waiting was scanned.
C19_Witness ==
    /\ Len(report) >= 1
    /\ AllContainers(pods)[1].State.Running
    /\ ~AllContainers(pods)[1].Ready
    /\ AllContainers(pods)[1].State.Waiting = <<>>
    /\ report[1] = [class |-> "logScan", note |-> "scanned"]

====
